---- MODULE Spec2Model ----
(***************************************************************************)
(* Model of the tic-tac-toe rules/AI core (tic_tac_toe.py) and of the      *)
(* console game loops that call it.                                        *)
(*                                                                         *)
(* A board is the Python list of three row lists: a sequence of three     *)
(* sequences of three marks, board[row + 1][col + 1] being the source's    *)
(* board[row][col].  A board value is also read as a heap of row objects   *)
(* (heap[i] is row object i) so that copy_board and the in-place           *)
(* make_move can be modelled with the aliasing Python gives them.          *)
(***************************************************************************)
EXTENDS Integers, Sequences, FiniteSets, TLC

VARIABLES
    board,           \* the caller's board object (game board or argument)
    current_player,  \* mark whose turn it is in a game loop
    difficulty,      \* "EASY" | "HARD" | "TWO_PLAYER" | "NONE"
    result,          \* GameResult returned by a game loop, "NONE" before
    pc,              \* position of the running procedure
    computer,        \* mark passed as computer / player
    human,           \* mark passed as human / opponent
    op,              \* name of the last function applied to the board
    arg,             \* its scalar argument, when it has one
    ret,             \* its return value
    board0,          \* the board as it was when the function was called
    scoreboard,      \* the Scoreboard object of the session
    scoreboard0,     \* the scoreboard as it was when its method was called
    last_game_mode,  \* main's last_game_mode, "NONE" for None
    menu_choice,     \* main's choice, the last answer to the post-game menu
    is_game_over,    \* TicTacToeGUI.is_game_over
    waiting_for_computer,  \* TicTacToeGUI.waiting_for_computer
    game_mode,       \* TicTacToeGUI.game_mode, "NONE" for None
    timers,          \* number of root.after callbacks scheduled and not yet run
    screen           \* the frame on display: "mode" selection or "game" board

vars == <<board, current_player, difficulty, result, pc, computer, human,
          op, arg, ret, board0, scoreboard, scoreboard0, last_game_mode,
          menu_choice, is_game_over, waiting_for_computer, game_mode, timers,
          screen>>

----------------------------------------------------------------------------
(* Bounds of the model *)

\* largest number of empty cells of a board handed to the exhaustive search
\* (minimax, computer_move_hard) by the function-level specifications; the
\* game loops search every board they reach, whatever its number of empty cells
MaxEmptyHard == 4

\* integers typed at a prompt or offered to is_valid_move: the positions and
\* InputMargin integers on each side of them
InputMargin == 3

\* largest number of games one scoreboard records: record_result is not
\* called once games_played has reached MaxGames
MaxGames == 6

\* largest number of computer-move timer callbacks pending at once in the
\* GUI: a click that would schedule one more is not taken
MaxTimers == 1

\* the GUI starts a game (mode button, New Game) only while its scoreboard
\* has recorded fewer than MaxGuiGames games; Reset Scores starts the count
\* again
MaxGuiGames == 1

----------------------------------------------------------------------------
(* Values *)

EMPTY == " "
Marks == {"X", "O"}
Cells == {EMPTY, "X", "O"}
None == 0
PosInf == 1000
NegInf == -1000

Positions == 1..9

Inputs == (1 - InputMargin)..(9 + InputMargin)

Rows == [1..3 -> Cells]
Boards == [1..3 -> Rows]

max(a, b) == IF a >= b THEN a ELSE b
min(a, b) == IF a <= b THEN a ELSE b

\* random.random() in tenths (0.0, 0.2, 0.3, 0.9); the smart branch is taken
\* below SmartThreshold
RandomDraws == {0, 2, 3, 9}
SmartThreshold == 3

----------------------------------------------------------------------------
(* Board model *)

create_board == <<<<EMPTY, EMPTY, EMPTY>>, <<EMPTY, EMPTY, EMPTY>>,
                  <<EMPTY, EMPTY, EMPTY>>>>

\* the board object made of the row objects ref[1..3] of the heap
Deref(heap, ref) == <<heap[ref[1]], heap[ref[2]], heap[ref[3]]>>

\* a board held in a variable is the heap whose rows 1..3 are its rows
SelfRef == <<1, 2, 3>>

\* copy_board returning its argument: the "copy" is the caller's board object
copy_board_alias(heap, ref) == [heap |-> heap, ref |-> ref]

\* list(board): a new outer list holding the caller's three row objects
copy_board_shallow(heap, ref) == [heap |-> heap, ref |-> <<ref[1], ref[2], ref[3]>>]

\* [row[:] for row in board]: three new row objects, one new outer list
copy_board(heap, ref) ==
    [heap |-> heap \o <<heap[ref[1]], heap[ref[2]], heap[ref[3]]>>,
     ref  |-> <<Len(heap) + 1, Len(heap) + 2, Len(heap) + 3>>]

\* get_position without num -= 1
get_position_no_decrement(num) == <<num \div 3, num % 3>>

get_position(num) == <<(num - 1) \div 3, (num - 1) % 3>>

position_to_num(row, col) == row * 3 + col + 1

----------------------------------------------------------------------------
(* Rules engine *)

\* is_valid_move with the lower range test off by one (position <= 1)
is_valid_move_off_by_one(b, position) ==
    IF position <= 1 \/ position > 9
    THEN FALSE
    ELSE LET rc == get_position(position)
         IN  b[rc[1] + 1][rc[2] + 1] = EMPTY

is_valid_move(b, position) ==
    IF position < 1 \/ position > 9
    THEN FALSE
    ELSE LET rc == get_position(position)
         IN  b[rc[1] + 1][rc[2] + 1] = EMPTY

\* make_move writing board[col][row]
make_move_in_transposed(heap, ref, position, player) ==
    LET rc == get_position(position)
    IN  [heap EXCEPT ![ref[rc[2] + 1]][rc[1] + 1] = player]

\* board[row][col] = player on the board object ref of the heap
make_move_in(heap, ref, position, player) ==
    LET rc == get_position(position)
    IN  [heap EXCEPT ![ref[rc[1] + 1]][rc[2] + 1] = player]

make_move(b, position, player) == make_move_in(b, SelfRef, position, player)

\* check_winner without the anti-diagonal test
check_winner_no_anti_diagonal(b, player) ==
    \/ \E row \in 1..3 : \A col \in 1..3 : b[row][col] = player
    \/ \E col \in 1..3 : \A row \in 1..3 : b[row][col] = player
    \/ \A i \in 0..2 : b[i + 1][i + 1] = player

check_winner(b, player) ==
    \/ \E row \in 1..3 : \A col \in 1..3 : b[row][col] = player
    \/ \E col \in 1..3 : \A row \in 1..3 : b[row][col] = player
    \/ \A i \in 0..2 : b[i + 1][i + 1] = player
    \/ \A i \in 0..2 : b[i + 1][(2 - i) + 1] = player

\* is_board_full testing cell == " ": true of the empty board only
is_board_full_tests_empty(b) == \A row \in 1..3 : \A col \in 1..3 : b[row][col] = EMPTY

is_board_full(b) == \A row \in 1..3 : \A col \in 1..3 : b[row][col] # EMPTY

\* get_available_moves looping over range(1, 9): position 9 is never listed
get_available_moves_short_range(b) ==
    SelectSeq(<<1, 2, 3, 4, 5, 6, 7, 8>>, LAMBDA i : is_valid_move(b, i))

\* for i in range(1, 10): if is_valid_move(board, i): moves.append(i)
get_available_moves(b) ==
    SelectSeq(<<1, 2, 3, 4, 5, 6, 7, 8, 9>>, LAMBDA i : is_valid_move(b, i))

\* the loop of find_winning_move from the i-th available move on; heap holds
\* the caller's board (ref) and every copy made so far
RECURSIVE find_winning_move_from(_, _, _, _, _)
find_winning_move_from(heap, ref, player, moves, i) ==
    IF i > Len(moves) THEN [move |-> None, heap |-> heap]
    ELSE LET test_board == copy_board(heap, ref)
             after == make_move_in(test_board.heap, test_board.ref,
                                   moves[i], player)
         IN  IF check_winner(Deref(after, test_board.ref), player)
             THEN [move |-> moves[i], heap |-> after]
             ELSE find_winning_move_from(after, ref, player, moves, i + 1)

\* returns the move (None when there is none) and the caller's board as the
\* call leaves it
find_winning_move(b, player) ==
    LET r == find_winning_move_from(b, SelfRef, player,
                                    get_available_moves(b), 1)
    IN  [move |-> r.move, board |-> Deref(r.heap, SelfRef)]

----------------------------------------------------------------------------
(* AI engine *)

\* the undo assignment left out: the simulated mark stays on the board
undo_move_missing(b, move) == b

\* board[row][col] = " "  # Undo move
undo_move(b, move) ==
    LET rc == get_position(move)
    IN  [b EXCEPT ![rc[1] + 1][rc[2] + 1] = EMPTY]

RECURSIVE minimax(_, _, _, _)
RECURSIVE minimax_from(_, _, _, _, _, _, _)

\* the for loop of minimax from the i-th available move on
minimax_from(b, is_maximizing, player, opponent, available, i, best_score) ==
    IF i > Len(available) THEN [score |-> best_score, board |-> b]
    ELSE LET move == available[i]
             moved == make_move(b, move,
                                IF is_maximizing THEN player ELSE opponent)
             r == minimax(moved, ~is_maximizing, player, opponent)
             undone == undo_move(r.board, move)
         IN  IF is_maximizing
             THEN IF max(r.score, best_score) = r.score
                  THEN minimax_from(undone, is_maximizing, player, opponent,
                                    available, i + 1, r.score)
                  ELSE minimax_from(undone, is_maximizing, player, opponent,
                                    available, i + 1, best_score)
             ELSE IF min(r.score, best_score) = r.score
                  THEN minimax_from(undone, is_maximizing, player, opponent,
                                    available, i + 1, r.score)
                  ELSE minimax_from(undone, is_maximizing, player, opponent,
                                    available, i + 1, best_score)

\* minimax without its first terminal test: a line of the opponent is not
\* scored as a loss
minimax_no_loss_test(b, is_maximizing, player, opponent) ==
    IF check_winner(b, player) THEN [score |-> 10, board |-> b]
    ELSE IF is_board_full(b) THEN [score |-> 0, board |-> b]
    ELSE minimax_from(b, is_maximizing, player, opponent,
                      get_available_moves(b), 1,
                      IF is_maximizing THEN NegInf ELSE PosInf)

\* minimax without its is_board_full test: a full board without a line is
\* searched, and its empty loop leaves best_score at an infinity
minimax_no_full_test(b, is_maximizing, player, opponent) ==
    IF check_winner(b, opponent) THEN [score |-> -10, board |-> b]
    ELSE IF check_winner(b, player) THEN [score |-> 10, board |-> b]
    ELSE minimax_from(b, is_maximizing, player, opponent,
                      get_available_moves(b), 1,
                      IF is_maximizing THEN NegInf ELSE PosInf)

\* returns the score and the board as the call leaves it
minimax(b, is_maximizing, player, opponent) ==
    IF check_winner(b, opponent) THEN [score |-> -10, board |-> b]
    ELSE IF check_winner(b, player) THEN [score |-> 10, board |-> b]
    ELSE IF is_board_full(b) THEN [score |-> 0, board |-> b]
    ELSE minimax_from(b, is_maximizing, player, opponent,
                      get_available_moves(b), 1,
                      IF is_maximizing THEN NegInf ELSE PosInf)

FirstMoves == <<1, 3, 5, 7, 9>>

RECURSIVE computer_move_hard_from(_, _, _, _, _, _, _)

\* computer_move_hard's loop with score < best_score: the comparison is the
\* wrong way round, so nothing ever beats the initial -inf
computer_move_hard_from_wrong_compare(b, comp, hum, available, i, best_score, best_move) ==
    IF i > Len(available) THEN [move |-> best_move, board |-> b]
    ELSE LET move == available[i]
             r == minimax(make_move(b, move, comp), FALSE, comp, hum)
             undone == undo_move(r.board, move)
         IN  IF r.score < best_score
             THEN computer_move_hard_from(undone, comp, hum, available, i + 1,
                                          r.score, move)
             ELSE computer_move_hard_from(undone, comp, hum, available, i + 1,
                                          best_score, best_move)

\* the for loop of computer_move_hard from the i-th available move on
computer_move_hard_from(b, comp, hum, available, i, best_score, best_move) ==
    IF i > Len(available) THEN [move |-> best_move, board |-> b]
    ELSE LET move == available[i]
             r == minimax(make_move(b, move, comp), FALSE, comp, hum)
             undone == undo_move(r.board, move)
         IN  IF r.score > best_score
             THEN computer_move_hard_from(undone, comp, hum, available, i + 1,
                                          r.score, move)
             ELSE computer_move_hard_from(undone, comp, hum, available, i + 1,
                                          best_score, best_move)

\* computer_move_hard whose loop never assigns best_move: it stays available[0]
computer_move_hard_keeps_first(b, comp, hum, choice) ==
    LET available == get_available_moves(b)
    IN  IF Len(available) = 9
        THEN [move |-> FirstMoves[((choice - 1) % Len(FirstMoves)) + 1],
              board |-> b]
        ELSE [move |-> available[1], board |-> b]

\* computer_move_hard looping over reversed(available)
computer_move_hard_descending(b, comp, hum, choice) ==
    LET available == get_available_moves(b)
        reversed == [i \in 1..Len(available) |->
                        available[Len(available) + 1 - i]]
    IN  IF Len(available) = 9
        THEN [move |-> FirstMoves[((choice - 1) % Len(FirstMoves)) + 1],
              board |-> b]
        ELSE computer_move_hard_from(b, comp, hum, reversed, 1, NegInf,
                                     reversed[1])

\* choice is the index random.choice draws; returns the move and the board
\* as the call leaves it
computer_move_hard(b, comp, hum, choice) ==
    LET available == get_available_moves(b)
    IN  IF Len(available) = 9
        THEN [move |-> FirstMoves[((choice - 1) % Len(FirstMoves)) + 1],
              board |-> b]
        ELSE computer_move_hard_from(b, comp, hum, available, 1, NegInf,
                                     available[1])

\* computer_move_easy drawing its random move from range(1, 10) instead of
\* from the available positions
computer_move_easy_any_position(b, comp, hum, draw, choice) ==
    [move |-> ((choice - 1) % 9) + 1, board |-> b]

\* computer_move_easy looking for the block before the win
computer_move_easy_blocks_first(b, comp, hum, draw, choice) ==
    LET available == get_available_moves(b)
        blocking == find_winning_move(b, hum)
        winning == find_winning_move(blocking.board, comp)
        random_move == available[((choice - 1) % Len(available)) + 1]
    IN  IF draw < SmartThreshold
        THEN IF blocking.move # None
             THEN [move |-> blocking.move, board |-> blocking.board]
             ELSE IF winning.move # None
                  THEN [move |-> winning.move, board |-> winning.board]
                  ELSE [move |-> random_move, board |-> winning.board]
        ELSE [move |-> random_move, board |-> b]

\* draw is random.random() in tenths, choice the index random.choice draws
computer_move_easy(b, comp, hum, draw, choice) ==
    LET available == get_available_moves(b)
        winning == find_winning_move(b, comp)
        blocking == find_winning_move(winning.board, hum)
        random_move == available[((choice - 1) % Len(available)) + 1]
    IN  IF draw < SmartThreshold
        THEN IF winning.move # None
             THEN [move |-> winning.move, board |-> winning.board]
             ELSE IF blocking.move # None
                  THEN [move |-> blocking.move, board |-> blocking.board]
                  ELSE [move |-> random_move, board |-> blocking.board]
        ELSE [move |-> random_move, board |-> b]

\* a variant that plays the Easy strategy at every difficulty
get_computer_move_always_easy(b, comp, hum, diff, draw, choice) == computer_move_easy(b, comp, hum, draw, choice)

\* a variant that does not look at the board: always position 1
get_computer_move_first_cell(b, comp, hum, diff, draw, choice) == [move |-> 1, board |-> b]

get_computer_move(b, comp, hum, diff, draw, choice) ==
    IF diff = "EASY"
    THEN computer_move_easy(b, comp, hum, draw, choice)
    ELSE computer_move_hard(b, comp, hum, choice)

----------------------------------------------------------------------------
(* Scoreboard *)

GameResults == {"PLAYER1_WIN", "PLAYER2_WIN", "DRAW"}

\* Scoreboard(player1_name, player2_name): the counters take their defaults
Scoreboard(name1, name2) ==
    [player1_name |-> name1, player2_name |-> name2,
     player1_wins |-> 0, player2_wins |-> 0, draws |-> 0, games_played |-> 0]

\* record_result counting a win of player 2 as a draw (the elif is missing)
record_result_no_player2_branch(sb, res) ==
    LET counted == [sb EXCEPT !.games_played = @ + 1]
    IN  IF res = "PLAYER1_WIN"
        THEN [counted EXCEPT !.player1_wins = @ + 1]
        ELSE [counted EXCEPT !.draws = @ + 1]

\* record_result without games_played += 1
record_result_not_counted(sb, res) ==
    IF res = "PLAYER1_WIN"
    THEN [sb EXCEPT !.player1_wins = @ + 1]
    ELSE IF res = "PLAYER2_WIN"
         THEN [sb EXCEPT !.player2_wins = @ + 1]
         ELSE [sb EXCEPT !.draws = @ + 1]

record_result(sb, res) ==
    LET counted == [sb EXCEPT !.games_played = @ + 1]
    IN  IF res = "PLAYER1_WIN"
        THEN [counted EXCEPT !.player1_wins = @ + 1]
        ELSE IF res = "PLAYER2_WIN"
             THEN [counted EXCEPT !.player2_wins = @ + 1]
             ELSE [counted EXCEPT !.draws = @ + 1]

\* reset leaving games_played as it is
reset_keeps_games_played(sb) ==
    [sb EXCEPT !.player1_wins = 0, !.player2_wins = 0, !.draws = 0]

reset(sb) ==
    [sb EXCEPT !.player1_wins = 0, !.player2_wins = 0, !.draws = 0,
               !.games_played = 0]

\* the session variables
\* play_game's player names for the mode
NamedFor(sb, mode) ==
    IF mode = "TWO_PLAYER"
    THEN [sb EXCEPT !.player1_name = "Player 1", !.player2_name = "Player 2"]
    ELSE [sb EXCEPT !.player1_name = "You", !.player2_name = "Computer"]

session == <<scoreboard, scoreboard0, last_game_mode, menu_choice>>

\* the variables of the GUI object
gui == <<is_game_over, waiting_for_computer, game_mode, timers, screen>>

\* no window is open
NoGui ==
    /\ is_game_over = FALSE
    /\ waiting_for_computer = FALSE
    /\ game_mode = "NONE"
    /\ timers = 0
    /\ screen = "mode"

\* no session is running: main has only created its Scoreboard
NoSession ==
    /\ scoreboard = Scoreboard("Player 1", "Player 2")
    /\ scoreboard0 = scoreboard
    /\ last_game_mode = "NONE"
    /\ menu_choice = ""

----------------------------------------------------------------------------
(* Console game loops: play_game picks the mode, then play_vs_computer or  *)
(* play_two_player runs one loop iteration per step until it returns.      *)

\* the random values one call of get_computer_move consumes
DrawsOf(diff) == IF diff = "EASY" THEN RandomDraws ELSE {0}

ChoicesOf(b, diff) ==
    LET n == Len(get_available_moves(b))
    IN  IF diff = "EASY" THEN 1..n
        ELSE IF n = 9 THEN 1..Len(FirstMoves) ELSE {1}

\* the tail of a loop iteration testing is_board_full before check_winner
AfterMove_full_first(b, mark, win_result) ==
    /\ board' = b
    /\ IF is_board_full(b)
       THEN /\ result' = "DRAW"
            /\ pc' = "returned"
            /\ UNCHANGED current_player
       ELSE IF check_winner(b, mark)
            THEN /\ result' = win_result
                 /\ pc' = "returned"
                 /\ UNCHANGED current_player
            ELSE /\ current_player' = IF current_player = "X" THEN "O" ELSE "X"
                 /\ UNCHANGED <<result, pc>>

\* the tail of one loop iteration once mark has been placed on b:
\* check_winner, is_board_full, switch players
AfterMove(b, mark, win_result) ==
    /\ board' = b
    /\ IF check_winner(b, mark)
       THEN /\ result' = win_result
            /\ pc' = "returned"
            /\ UNCHANGED current_player
       ELSE IF is_board_full(b)
            THEN /\ result' = "DRAW"
                 /\ pc' = "returned"
                 /\ UNCHANGED current_player
            ELSE /\ current_player' = IF current_player = "X" THEN "O" ELSE "X"
                 /\ UNCHANGED <<result, pc>>

ConsoleInit ==
    /\ board = create_board
    /\ current_player = "X"
    /\ difficulty = "NONE"
    /\ result = "NONE"
    /\ pc = "select"
    /\ computer = "O"
    /\ human = "X"
    /\ op = "none"
    /\ arg = 0
    /\ ret = 0
    /\ board0 = create_board
    /\ NoSession
    /\ NoGui

\* play_game: select_game_mode, the player names for the mode, then the
\* head of the game function
SelectGameMode ==
    /\ pc = "select"
    /\ \E m \in {"EASY", "HARD", "TWO_PLAYER"} : difficulty' = m
    /\ board' = create_board
    /\ current_player' = "X"
    /\ human' = "X"
    /\ computer' = "O"
    /\ pc' = "playing"
    /\ scoreboard' = NamedFor(scoreboard, difficulty')
    /\ UNCHANGED <<result, op, arg, ret, board0>>
    /\ UNCHANGED <<scoreboard0, last_game_mode, menu_choice>>
    /\ UNCHANGED gui

\* play_vs_computer, branch current_player == human
HumanTurn ==
    /\ pc = "playing"
    /\ difficulty \in {"EASY", "HARD"}
    /\ current_player = human
    /\ \E move \in Inputs :
          /\ is_valid_move(board, move)        \* get_player_move returns
          /\ AfterMove(make_move(board, move, human), human, "PLAYER1_WIN")
          /\ op' = "make_move"
          /\ ret' = move
    /\ board0' = board
    /\ UNCHANGED <<difficulty, computer, human, arg>>
    /\ UNCHANGED session
    /\ UNCHANGED gui

\* play_vs_computer, branch current_player == computer
ComputerTurn ==
    /\ pc = "playing"
    /\ difficulty \in {"EASY", "HARD"}
    /\ current_player = computer
    /\ \E draw \in DrawsOf(difficulty), choice \in ChoicesOf(board, difficulty) :
          \E r \in {get_computer_move(board, computer, human, difficulty,
                                      draw, choice)} :
              /\ AfterMove(make_move(r.board, r.move, computer), computer,
                           "PLAYER2_WIN")
              /\ op' = "get_computer_move"
              /\ ret' = r.move
    /\ board0' = board
    /\ UNCHANGED <<difficulty, computer, human, arg>>
    /\ UNCHANGED session
    /\ UNCHANGED gui

\* play_two_player, one loop iteration
TwoPlayerTurn ==
    /\ pc = "playing"
    /\ difficulty = "TWO_PLAYER"
    /\ \E move \in Inputs :
          /\ is_valid_move(board, move)
          /\ AfterMove(make_move(board, move, current_player), current_player,
                       IF current_player = "X" THEN "PLAYER1_WIN"
                                               ELSE "PLAYER2_WIN")
          /\ op' = "make_move"
          /\ ret' = move
    /\ board0' = board
    /\ UNCHANGED <<difficulty, computer, human, arg>>
    /\ UNCHANGED session
    /\ UNCHANGED gui

\* play_game once the game function has returned its result:
\* scoreboard.record_result(result), then play_game returns
RecordGameResult ==
    /\ pc = "returned"
    /\ scoreboard' = record_result(scoreboard, result)
    /\ pc' = "recorded"
    /\ UNCHANGED <<board, current_player, difficulty, result, computer, human,
                   op, arg, ret, board0>>
    /\ UNCHANGED <<scoreboard0, last_game_mode, menu_choice>>
    /\ UNCHANGED gui

ConsoleNext ==
    \/ SelectGameMode
    \/ HumanTurn
    \/ ComputerTurn
    \/ TwoPlayerTurn
    \/ RecordGameResult

SpecConsole == ConsoleInit /\ [][ConsoleNext]_vars

----------------------------------------------------------------------------
(* The same game loop with the marks exchanged: the Hard computer is X and *)
(* moves first on the empty board, the opponent answers with O.            *)

ComputerFirstInit ==
    /\ board = create_board
    /\ current_player = "X"
    /\ difficulty = "HARD"
    /\ result = "NONE"
    /\ pc = "playing"
    /\ computer = "X"
    /\ human = "O"
    /\ op = "none"
    /\ arg = 0
    /\ ret = 0
    /\ board0 = create_board
    /\ NoSession
    /\ NoGui

ComputerFirstNext ==
    \/ ComputerTurn
    \/ HumanTurn

SpecComputerFirst == ComputerFirstInit /\ [][ComputerFirstNext]_vars

----------------------------------------------------------------------------
(* Function-level specifications: the caller holds an arbitrary board and  *)
(* two marks and applies one function of the core to it.  board0 keeps the *)
(* board as it was at the call, board is the caller's board afterwards.    *)

NumEmpty(b) == Cardinality({n \in Positions : is_valid_move(b, n)})

Other(mark) == IF mark = "X" THEN "O" ELSE "X"

FunctionsInit ==
    /\ board \in Boards
    /\ board0 = board
    /\ computer \in Marks
    /\ human = Other(computer)
    /\ current_player = "X"
    /\ difficulty = "NONE"
    /\ result = "NONE"
    /\ pc = "call"
    /\ op = "none"
    /\ arg = 0
    /\ ret = 0
    /\ NoSession
    /\ NoGui

\* what every call leaves alone
Returned(name) ==
    /\ pc' = "returned"
    /\ op' = name
    /\ board0' = board
    /\ UNCHANGED <<computer, human, current_player, result>>
    /\ UNCHANGED session
    /\ UNCHANGED gui

Call_is_valid_move ==
    /\ pc = "call"
    /\ \E n \in Inputs :
          /\ arg' = n
          /\ ret' = is_valid_move(board, n)
    /\ Returned("is_valid_move")
    /\ UNCHANGED <<board, difficulty>>

Call_check_winner ==
    /\ pc = "call"
    /\ ret' = check_winner(board, computer)
    /\ Returned("check_winner")
    /\ UNCHANGED <<board, difficulty, arg>>

Call_get_available_moves ==
    /\ pc = "call"
    /\ ret' = get_available_moves(board)
    /\ Returned("get_available_moves")
    /\ UNCHANGED <<board, difficulty, arg>>

Call_find_winning_move ==
    /\ pc = "call"
    /\ \E r \in {find_winning_move(board, computer)} :
          /\ ret' = r.move
          /\ board' = r.board
    /\ Returned("find_winning_move")
    /\ UNCHANGED <<difficulty, arg>>

Call_minimax ==
    /\ pc = "call"
    /\ NumEmpty(board) <= MaxEmptyHard
    /\ \E is_maximizing \in BOOLEAN :
          \E r \in {minimax(board, is_maximizing, computer, human)} :
              /\ arg' = is_maximizing
              /\ ret' = r.score
              /\ board' = r.board
    /\ Returned("minimax")
    /\ UNCHANGED difficulty

\* get_computer_move and, through its dispatch, computer_move_easy and
\* computer_move_hard; random.choice needs a non-empty list
Call_get_computer_move ==
    /\ pc = "call"
    /\ NumEmpty(board) >= 1
    /\ \E diff \in {"EASY", "HARD"} :
          /\ diff = "HARD" => (NumEmpty(board) <= MaxEmptyHard
                               \/ NumEmpty(board) = 9)
          /\ difficulty' = diff
          /\ \E draw \in DrawsOf(diff), choice \in ChoicesOf(board, diff) :
                \E r \in {get_computer_move(board, computer, human, diff,
                                            draw, choice)} :
                    /\ arg' = draw
                    /\ ret' = r.move
                    /\ board' = r.board
    /\ Returned("get_computer_move")

RulesNext ==
    \/ Call_is_valid_move
    \/ Call_check_winner
    \/ Call_get_available_moves
    \/ Call_find_winning_move

SpecRules == FunctionsInit /\ [][RulesNext]_vars

SearchNext ==
    \/ Call_find_winning_move
    \/ Call_minimax
    \/ Call_get_computer_move

SpecSearch == FunctionsInit /\ [][SearchNext]_vars

----------------------------------------------------------------------------
(* The board operations: position conversions, make_move on any of the     *)
(* nine positions, and copy_board followed by a change of either board.    *)

Call_get_position ==
    /\ pc = "call"
    /\ \E num \in Positions :
          /\ arg' = num
          /\ ret' = get_position(num)
    /\ Returned("get_position")
    /\ UNCHANGED <<board, difficulty>>

Call_position_to_num ==
    /\ pc = "call"
    /\ \E row \in 0..2, col \in 0..2 :
          /\ arg' = <<row, col>>
          /\ ret' = position_to_num(row, col)
    /\ Returned("position_to_num")
    /\ UNCHANGED <<board, difficulty>>

\* make_move does not test the cell: any of the nine positions is written
Call_make_move ==
    /\ pc = "call"
    /\ \E position \in Positions :
          /\ arg' = position
          /\ board' = make_move(board, position, computer)
    /\ ret' = None
    /\ Returned("make_move")
    /\ UNCHANGED difficulty

\* ret keeps the heap after the call and the reference of the returned board
Call_copy_board ==
    /\ pc = "call"
    /\ ret' = copy_board(board, SelfRef)
    /\ Returned("copy_board")
    /\ UNCHANGED <<board, difficulty, arg>>

\* the caller writes a cell of the copy or of the original after the copy
ChangeAfterCopy ==
    /\ pc = "returned"
    /\ op = "copy_board"
    /\ \E side \in {"copy", "original"}, position \in Positions :
          LET target == IF side = "copy" THEN ret.ref ELSE SelfRef
              heap == make_move_in(ret.heap, target, position, computer)
          IN  /\ arg' = <<side, position>>
              /\ ret' = [ret EXCEPT !.heap = heap]
              /\ board' = Deref(heap, SelfRef)
    /\ pc' = "changed"
    /\ op' = "copy_board_changed"
    /\ UNCHANGED <<board0, difficulty, computer, human, current_player, result>>
    /\ UNCHANGED session
    /\ UNCHANGED gui

BoardNext ==
    \/ Call_get_position
    \/ Call_position_to_num
    \/ Call_make_move
    \/ Call_copy_board
    \/ ChangeAfterCopy

SpecBoard == FunctionsInit /\ [][BoardNext]_vars

----------------------------------------------------------------------------
(* Vocabulary of the properties, stated on position numbers and on the     *)
(* eight lines written out, independently of the operators above.          *)

Cell(b, n) == b[((n - 1) \div 3) + 1][((n - 1) % 3) + 1]

Lines == {{1, 2, 3}, {4, 5, 6}, {7, 8, 9},
          {1, 4, 7}, {2, 5, 8}, {3, 6, 9},
          {1, 5, 9}, {3, 5, 7}}

HasLine(b, mark) == \E line \in Lines : \A n \in line : Cell(b, n) = mark

EmptyPositions(b) == {n \in Positions : Cell(b, n) = EMPTY}

\* empty position n, once filled with mark, gives mark a completed line
Completes(b, n, mark) ==
    /\ n \in EmptyPositions(b)
    /\ \E line \in Lines : \A m \in line : (m = n \/ Cell(b, m) = mark)

Lowest(S) == CHOOSE n \in S : \A m \in S : n <= m

SeqElems(q) == {q[i] : i \in 1..Len(q)}

----------------------------------------------------------------------------
(* Rules engine properties, checked under SpecRules                        *)

\* C7: check_winner(board, mark) is true if and only if at least one of the
\* 8 lines (3 rows, 3 columns, 2 diagonals) has all three cells equal to
\* mark; so it is false when every line has at most two cells of that mark.
C7_CheckWinnerIffLine ==
    (pc = "returned" /\ op = "check_winner") =>
        /\ ret \in BOOLEAN
        /\ ret = HasLine(board0, computer)

\* check_winner has answered true on a board one of whose lines is the mark's
C7_Witness_LineFound ==
    /\ pc = "returned" /\ op = "check_winner"
    /\ ret = TRUE
    /\ \A n \in {3, 5, 7} : Cell(board0, n) = computer

\* C8: is_valid_move(board, n) is true if and only if 1 <= n <= 9 and cell n
\* is empty, for every integer n offered (0, negative, above 9 included); an
\* out-of-range n gives the value false and the board is unchanged.
C8_IsValidMoveIffInRangeAndEmpty ==
    (pc = "returned" /\ op = "is_valid_move") =>
        /\ ret \in BOOLEAN
        /\ ret = (1 <= arg /\ arg <= 9 /\ arg \in EmptyPositions(board0))
        /\ (arg < 1 \/ arg > 9) => (ret = FALSE)
        /\ board = board0

\* is_valid_move has answered false for an out-of-range n (0 or below, and
\* above 9 in another state) and true for an empty cell
C8_Witness_OutOfRangeIsFalse ==
    /\ pc = "returned" /\ op = "is_valid_move"
    /\ arg <= 0
    /\ ret = FALSE
    /\ EmptyPositions(board0) # {}

\* C9: get_available_moves returns exactly the positions 1..9 whose cells
\* are empty, each once, in strictly ascending order; its length is 9 minus
\* the number of occupied cells (the empty list on a full board).
C9_AvailableMovesAscendingExact ==
    (pc = "returned" /\ op = "get_available_moves") =>
        /\ SeqElems(ret) = EmptyPositions(board0)
        /\ \A i \in 1..Len(ret), j \in 1..Len(ret) : i < j => ret[i] < ret[j]
        /\ Len(ret) = 9 - Cardinality({n \in Positions :
                                          Cell(board0, n) # EMPTY})
        /\ (\A n \in Positions : Cell(board0, n) # EMPTY) => ret = <<>>

\* get_available_moves has returned a list of several positions ending in 9
C9_Witness_SeveralMoves ==
    /\ pc = "returned" /\ op = "get_available_moves"
    /\ Len(ret) = 3
    /\ ret[3] = 9
    /\ Cell(board0, 1) = "X" /\ Cell(board0, 2) = "O"

\* C10: find_winning_move returns the lowest-numbered empty position whose
\* filling with the mark makes check_winner true for that mark, and None
\* exactly when no empty position does; so it returns the completing
\* position when exactly one exists.
C10_FindWinningMoveLowest ==
    (pc = "returned" /\ op = "find_winning_move") =>
        LET completing == {n \in Positions : Completes(board0, n, computer)}
        IN  /\ (ret = None) = (completing = {})
            /\ completing # {} => ret = Lowest(completing)
            /\ Cardinality(completing) = 1 => completing = {ret}

\* find_winning_move has returned the lower of two completing positions
C10_Witness_LowestOfTwo ==
    /\ pc = "returned" /\ op = "find_winning_move"
    /\ ~HasLine(board0, computer)
    /\ Cardinality({n \in Positions : Completes(board0, n, computer)}) = 2
    /\ ret # None
    /\ Cell(board0, 1) # EMPTY

----------------------------------------------------------------------------
(* Game properties of the unbeatable policy                                *)

\* C1: in a console game against the Hard computer (human X moves first,
\* every human move answered by computer_move_hard) no sequence of legal
\* human moves ends with the human winning: play_vs_computer(HARD) returns
\* PLAYER2_WIN or DRAW, never PLAYER1_WIN.  Checked under SpecConsole.
C1_HardNeverReturnsHumanWin ==
    difficulty = "HARD" =>
        /\ result # "PLAYER1_WIN"
        /\ ~HasLine(board, "X")
        /\ pc = "returned" => result \in {"PLAYER2_WIN", "DRAW"}

\* a Hard game has been played to a full board and returned DRAW
C1_Witness_HardGameDrawn ==
    /\ difficulty = "HARD"
    /\ pc = "returned"
    /\ result = "DRAW"
    /\ EmptyPositions(board) = {}

\* C6: moving first on the empty board, computer_move_hard returns one of
\* 1, 3, 5, 7, 9, and from each of these openings, continuing with
\* computer_move_hard against every sequence of opponent replies, the game
\* never ends with the opponent completing a line.  Checked under
\* SpecComputerFirst.
C6_ComputerFirstNeverLoses ==
    /\ (op = "get_computer_move" /\ EmptyPositions(board0) = Positions) =>
           ret \in {1, 3, 5, 7, 9}
    /\ (EmptyPositions(board) # Positions) =>
           \E n \in {1, 3, 5, 7, 9} : Cell(board, n) = computer
    /\ ~HasLine(board, human)
    /\ result # "PLAYER1_WIN"
    /\ pc = "returned" => result \in {"PLAYER2_WIN", "DRAW"}

\* a game the computer opened has been played to a full board and drawn
C6_Witness_ComputerFirstDrawn ==
    /\ computer = "X"
    /\ pc = "returned"
    /\ result = "DRAW"
    /\ EmptyPositions(board) = {}
    /\ ~HasLine(board, computer)

----------------------------------------------------------------------------
(* AI engine properties, checked under SpecSearch                          *)

\* computer_move_hard has returned (through get_computer_move's dispatch)
HardReturned ==
    pc = "returned" /\ op = "get_computer_move" /\ difficulty = "HARD"

\* minimax score of the position that filling n with the computer's mark
\* leaves, the opponent to move
Score(b, n) == minimax(make_move(b, n, computer), FALSE, computer, human).score

NoLine(b) == ~HasLine(b, "X") /\ ~HasLine(b, "O")

CompletingFor(b, mark) == {n \in Positions : Completes(b, n, mark)}

\* the case of C2: a non-empty board without a completed line on which the
\* computer has an immediately completing position
C2_Case ==
    /\ HardReturned
    /\ EmptyPositions(board0) # Positions
    /\ NoLine(board0)
    /\ CompletingFor(board0, computer) # {}

\* C2: on every non-empty board without a completed line on which the
\* computer has an immediately completing position, computer_move_hard
\* returns a position that immediately completes a line for the computer,
\* also when the opponent has an immediately winning position of its own.
C2_Original_TakesImmediateWin ==
    C2_Case => Completes(board0, ret, computer)

\* the case of C3: no completed line, no immediately winning position for
\* the computer, exactly one for the opponent
C3_Case ==
    /\ HardReturned
    /\ NoLine(board0)
    /\ CompletingFor(board0, computer) = {}
    /\ Cardinality(CompletingFor(board0, human)) = 1

\* C3 as stated: in that case computer_move_hard returns the opponent's
\* winning position.
C3_Original_AlwaysBlocks ==
    C3_Case => CompletingFor(board0, human) = {ret}

\* C3 as amended: in that case computer_move_hard returns the opponent's
\* winning position unless the computer loses whatever it plays (blocking
\* too has minimax score -10); then it returns the lowest-numbered empty
\* position, blocking or not.
C3_BlocksUnlessLost ==
    C3_Case =>
        LET p == Lowest(CompletingFor(board0, human))
        IN  IF Score(board0, p) > -10
            THEN ret = p
            ELSE ret = Lowest(EmptyPositions(board0))

\* computer_move_hard has blocked the opponent's only winning position, which
\* was not the lowest empty cell
C3_Witness_Blocked ==
    /\ C3_Case
    /\ CompletingFor(board0, human) = {ret}
    /\ ret # Lowest(EmptyPositions(board0))

\* C4: on every board with at least one empty cell, for both difficulty
\* levels and every outcome of the random draws, get_computer_move returns a
\* position in 1..9 whose cell is empty.
C4_ComputerMoveIsAvailable ==
    (pc = "returned" /\ op = "get_computer_move") =>
        /\ ret \in 1..9
        /\ Cell(board0, ret) = EMPTY

\* the Easy policy has drawn a random move that is not the lowest empty cell
C4_Witness_EasyRandomMove ==
    /\ pc = "returned" /\ op = "get_computer_move"
    /\ difficulty = "EASY"
    /\ arg >= SmartThreshold
    /\ NoLine(board0)
    /\ Cardinality(EmptyPositions(board0)) = 2
    /\ ret # Lowest(EmptyPositions(board0))

\* C5: minimax, computer_move_hard, computer_move_easy, get_computer_move
\* and find_winning_move leave the caller's board as it was: after the call
\* each of the 9 cells holds the value it held before, for every board and
\* both marks.
C5_QueriesLeaveBoardUnchanged ==
    (pc = "returned"
        /\ op \in {"minimax", "get_computer_move", "find_winning_move"}) =>
        \A n \in Positions : Cell(board, n) = Cell(board0, n)

\* minimax has searched a board without a line and with several empty cells
C5_Witness_MinimaxSearched ==
    /\ pc = "returned" /\ op = "minimax"
    /\ arg = TRUE
    /\ NoLine(board0)
    /\ Cardinality(EmptyPositions(board0)) >= 3
    /\ ret = 0

----------------------------------------------------------------------------
(* The Scoreboard object on its own: created with two names, then any      *)
(* sequence of record_result and reset calls.                              *)

\* the name pairs a Scoreboard is given: the defaults, play_game's pair for
\* the computer modes, and a pair passed to the constructor
PlayerNames == {<<"Player 1", "Player 2">>, <<"You", "Computer">>,
                <<"Alice", "Bob">>}

ScoreboardInit ==
    /\ \E names \in PlayerNames : scoreboard = Scoreboard(names[1], names[2])
    /\ scoreboard0 = scoreboard
    /\ last_game_mode = "NONE"
    /\ menu_choice = ""
    /\ NoGui
    /\ board = create_board
    /\ board0 = create_board
    /\ current_player = "X"
    /\ difficulty = "NONE"
    /\ result = "NONE"
    /\ computer = "O"
    /\ human = "X"
    /\ pc = "call"
    /\ op = "none"
    /\ arg = 0
    /\ ret = 0

\* what a method call on the scoreboard leaves alone
MethodReturned(name) ==
    /\ pc' = "returned"
    /\ op' = name
    /\ ret' = None
    /\ scoreboard0' = scoreboard
    /\ UNCHANGED <<board, board0, current_player, difficulty, result, computer,
                   human, last_game_mode, menu_choice>>
    /\ UNCHANGED gui

Call_record_result ==
    /\ scoreboard.games_played < MaxGames
    /\ \E res \in GameResults :
          /\ arg' = res
          /\ scoreboard' = record_result(scoreboard, res)
    /\ MethodReturned("record_result")

Call_reset ==
    /\ scoreboard' = reset(scoreboard)
    /\ MethodReturned("reset")
    /\ UNCHANGED arg

ScoreboardNext ==
    \/ Call_record_result
    \/ Call_reset

SpecScoreboard == ScoreboardInit /\ [][ScoreboardNext]_vars

----------------------------------------------------------------------------
(* The console session: main's loop around play_game and the post-game     *)
(* menu, one step per answered prompt.  A game is taken as a whole, by the  *)
(* result its function returns (SpecConsole runs its loop).                *)

GameModes == {"EASY", "HARD", "TWO_PLAYER"}

\* the results a game function can return; play_vs_computer(HARD) never
\* returns PLAYER1_WIN
GameOutcomes(mode) ==
    IF mode = "HARD" THEN {"PLAYER2_WIN", "DRAW"} ELSE GameResults

\* main up to its loop: the mode selection of play_game is the next prompt
SessionInit ==
    /\ NoSession
    /\ NoGui
    /\ board = create_board
    /\ board0 = create_board
    /\ current_player = "X"
    /\ difficulty = "NONE"
    /\ result = "NONE"
    /\ computer = "O"
    /\ human = "X"
    /\ pc = "select_game_mode"
    /\ op = "none"
    /\ arg = 0
    /\ ret = 0

\* what no step of main touches
SessionFrame ==
    /\ UNCHANGED <<board, board0, current_player, computer, human, arg, ret>>
    /\ UNCHANGED gui

\* top of main's loop: play_game (mode selection, names, the game,
\* record_result), then the mode-change test, up to the next prompt
PlayGame ==
    /\ pc = "select_game_mode"
    /\ scoreboard.games_played < MaxGames
    /\ \E selected \in GameModes :
          \E res \in GameOutcomes(selected) :
              LET named == NamedFor(scoreboard, selected)
                  recorded == record_result(named, res)
              IN  /\ difficulty' = selected
                  /\ result' = res
                  /\ scoreboard0' = named
                  /\ scoreboard' = recorded
                  /\ IF /\ last_game_mode # "NONE"
                        /\ selected # last_game_mode
                        /\ recorded.games_played > 1
                     THEN /\ pc' = "reset_prompt"
                          /\ UNCHANGED last_game_mode
                     ELSE /\ pc' = "menu"
                          /\ last_game_mode' = selected
    /\ op' = "play_game"
    /\ UNCHANGED menu_choice
    /\ SessionFrame

\* "Game mode changed. Reset scores? (y/n)", then on to the menu
AnswerResetPrompt ==
    /\ pc = "reset_prompt"
    /\ \E answer \in {"y", "n"} :
          scoreboard' = IF answer = "y" THEN reset(scoreboard) ELSE scoreboard
    /\ scoreboard0' = scoreboard
    /\ last_game_mode' = difficulty
    /\ pc' = "menu"
    /\ op' = "reset_prompt"
    /\ UNCHANGED <<difficulty, result, menu_choice>>
    /\ SessionFrame

\* choice "1": the same mode is played again and recorded, break, then
\* "if choice == '1': continue" goes to the top of main's loop
MenuPlayAgain ==
    /\ pc = "menu"
    /\ scoreboard.games_played < MaxGames
    /\ menu_choice' = "1"
    /\ \E res \in GameOutcomes(difficulty) :
          /\ result' = res
          /\ scoreboard' = record_result(scoreboard, res)
    /\ scoreboard0' = scoreboard
    /\ pc' = "select_game_mode"
    /\ op' = "menu"
    /\ UNCHANGED <<difficulty, last_game_mode>>
    /\ SessionFrame

\* choice "2": break, and the loop body ends
MenuChangeMode ==
    /\ pc = "menu"
    /\ menu_choice' = "2"
    /\ pc' = "select_game_mode"
    /\ op' = "menu"
    /\ UNCHANGED <<difficulty, result, last_game_mode, scoreboard, scoreboard0>>
    /\ SessionFrame

\* choice "3": reset, and the menu asks again
MenuResetScores ==
    /\ pc = "menu"
    /\ menu_choice' = "3"
    /\ scoreboard' = reset(scoreboard)
    /\ scoreboard0' = scoreboard
    /\ pc' = "menu"
    /\ op' = "menu"
    /\ UNCHANGED <<difficulty, result, last_game_mode>>
    /\ SessionFrame

\* choice "4": main returns
MenuQuit ==
    /\ pc = "menu"
    /\ menu_choice' = "4"
    /\ pc' = "quit"
    /\ op' = "menu"
    /\ UNCHANGED <<difficulty, result, last_game_mode, scoreboard, scoreboard0>>
    /\ SessionFrame

\* any other answer: "Please enter 1, 2, 3, or 4." and the menu asks again
MenuOtherAnswer ==
    /\ pc = "menu"
    /\ \E answer \in {"", "5", "y"} : menu_choice' = answer
    /\ pc' = "menu"
    /\ op' = "menu"
    /\ UNCHANGED <<difficulty, result, last_game_mode, scoreboard, scoreboard0>>
    /\ SessionFrame

SessionNext ==
    \/ PlayGame
    \/ AnswerResetPrompt
    \/ MenuPlayAgain
    \/ MenuChangeMode
    \/ MenuResetScores
    \/ MenuQuit
    \/ MenuOtherAnswer

SpecSession == SessionInit /\ [][SessionNext]_vars

----------------------------------------------------------------------------
(* The GUI (tic_tac_toe_gui.py): the TicTacToeGUI object and Tk's event    *)
(* loop.  One step is one run of an event handler: a button command or a   *)
(* root.after callback; Tk runs them one at a time, in any order.  The     *)
(* widgets' texts and colours are not part of the state.  A disabled board *)
(* button delivers no click; the buttons are disabled only while           *)
(* is_game_over or waiting_for_computer holds, when _on_cell_click returns *)
(* at once, so clicks are offered in every state of the game screen.       *)

\* TicTacToeGUI.__init__, ending with show_mode_selection
GuiInit ==
    /\ board = create_board
    /\ current_player = "X"
    /\ is_game_over = FALSE
    /\ game_mode = "NONE"
    /\ scoreboard = Scoreboard("Player 1", "Player 2")
    /\ waiting_for_computer = FALSE
    /\ timers = 0
    /\ screen = "mode"
    /\ scoreboard0 = scoreboard
    /\ last_game_mode = "NONE"
    /\ menu_choice = ""
    /\ board0 = create_board
    /\ difficulty = "NONE"
    /\ result = "NONE"
    /\ computer = "O"
    /\ human = "X"
    /\ pc = "mainloop"
    /\ op = "none"
    /\ arg = 0
    /\ ret = 0

\* what no handler of the GUI touches
GuiFrame ==
    UNCHANGED <<pc, op, arg, ret, board0, difficulty, result, computer, human,
                scoreboard0, last_game_mode, menu_choice>>

\* _check_game_over on board b: the line test is made for current_player
check_game_over(b) ==
    IF check_winner(b, current_player) THEN "win"
    ELSE IF is_board_full(b) THEN "draw"
    ELSE "none"

\* a variant that records the result but leaves is_game_over alone
HandleGameOver_keeps_flag(verdict) ==
    /\ UNCHANGED is_game_over
    /\ scoreboard' = record_result(scoreboard,
                         IF verdict = "draw" THEN "DRAW"
                         ELSE IF current_player = "X" THEN "PLAYER1_WIN"
                         ELSE "PLAYER2_WIN")

\* _handle_win(current_player) or _handle_draw
HandleGameOver(verdict) ==
    /\ is_game_over' = TRUE
    /\ scoreboard' = record_result(scoreboard,
                         IF verdict = "draw" THEN "DRAW"
                         ELSE IF current_player = "X" THEN "PLAYER1_WIN"
                         ELSE "PLAYER2_WIN")

\* _new_game
new_game ==
    /\ board' = create_board
    /\ current_player' = "X"
    /\ is_game_over' = FALSE
    /\ waiting_for_computer' = FALSE

\* _select_easy, _select_hard, _select_two_player: the mode buttons
SelectMode ==
    /\ pc = "mainloop"
    /\ screen = "mode"
    /\ scoreboard.games_played < MaxGuiGames
    /\ \E mode \in GameModes :
          /\ game_mode' = mode
          /\ scoreboard' = NamedFor(scoreboard, mode)
    /\ screen' = "game"
    /\ new_game
    /\ UNCHANGED timers
    /\ GuiFrame

\* the New Game button
NewGame ==
    /\ pc = "mainloop"
    /\ screen = "game"
    /\ scoreboard.games_played < MaxGuiGames
    /\ new_game
    /\ UNCHANGED <<game_mode, scoreboard, timers, screen>>
    /\ GuiFrame

\* _change_mode: only the mode selection frame is shown
ChangeMode ==
    /\ pc = "mainloop"
    /\ screen = "game"
    /\ screen' = "mode"
    /\ UNCHANGED <<board, current_player, is_game_over, waiting_for_computer,
                   game_mode, scoreboard, timers>>
    /\ GuiFrame

\* _reset_scores
ResetScores ==
    /\ pc = "mainloop"
    /\ screen = "game"
    /\ scoreboard' = reset(scoreboard)
    /\ UNCHANGED <<board, current_player, is_game_over, waiting_for_computer,
                   game_mode, timers, screen>>
    /\ GuiFrame

\* a variant that takes the click whatever is_game_over and
\* waiting_for_computer say
on_cell_click_always_accepts(row, col) ==
    LET position == position_to_num(row, col)
        placed == make_move(board, position, current_player)
        verdict == check_game_over(placed)
        switched == IF current_player = "X" THEN "O" ELSE "X"
    IN  IF ~is_valid_move(board, position)
        THEN UNCHANGED <<board, current_player, is_game_over,
                         waiting_for_computer, scoreboard, timers>>
        ELSE /\ board' = placed
             /\ IF verdict # "none"
                THEN /\ HandleGameOver(verdict)
                     /\ UNCHANGED <<current_player, waiting_for_computer, timers>>
                ELSE /\ current_player' = switched
                     /\ UNCHANGED <<is_game_over, scoreboard>>
                     /\ IF game_mode \in {"EASY", "HARD"} /\ switched = "O"
                        THEN /\ timers < MaxTimers
                             /\ waiting_for_computer' = TRUE
                             /\ timers' = timers + 1
                        ELSE UNCHANGED <<waiting_for_computer, timers>>

\* _on_cell_click(row, col)
on_cell_click(row, col) ==
    LET position == position_to_num(row, col)
        placed == make_move(board, position, current_player)
        verdict == check_game_over(placed)
        switched == IF current_player = "X" THEN "O" ELSE "X"
    IN  IF is_game_over \/ waiting_for_computer
        THEN UNCHANGED <<board, current_player, is_game_over,
                         waiting_for_computer, scoreboard, timers>>
        ELSE IF ~is_valid_move(board, position)
        THEN UNCHANGED <<board, current_player, is_game_over,
                         waiting_for_computer, scoreboard, timers>>
        ELSE /\ board' = placed
             /\ IF verdict # "none"
                THEN /\ HandleGameOver(verdict)
                     /\ UNCHANGED <<current_player, waiting_for_computer, timers>>
                ELSE /\ current_player' = switched
                     /\ UNCHANGED <<is_game_over, scoreboard>>
                     /\ IF game_mode \in {"EASY", "HARD"} /\ switched = "O"
                        THEN \* _schedule_computer_move
                             /\ timers < MaxTimers
                             /\ waiting_for_computer' = TRUE
                             /\ timers' = timers + 1
                        ELSE UNCHANGED <<waiting_for_computer, timers>>

CellClick ==
    /\ pc = "mainloop"
    /\ screen = "game"
    /\ \E row \in 0..2, col \in 0..2 : on_cell_click(row, col)
    /\ UNCHANGED <<game_mode, screen>>
    /\ GuiFrame

\* a variant that leaves waiting_for_computer set after its move
computer_turn_keeps_waiting ==
    LET diff == IF game_mode = "EASY" THEN "EASY" ELSE "HARD"
    IN  IF is_game_over
        THEN /\ waiting_for_computer' = FALSE
             /\ UNCHANGED <<board, current_player, is_game_over, scoreboard>>
        ELSE IF get_available_moves(board) = <<>>
        THEN UNCHANGED <<board, current_player, is_game_over,
                         waiting_for_computer, scoreboard>>
        ELSE \E draw \in DrawsOf(diff), choice \in ChoicesOf(board, diff) :
               \E r \in {get_computer_move(board, "O", "X", diff, draw, choice)} :
                 LET placed == make_move(r.board, r.move, "O")
                     verdict == check_game_over(placed)
                 IN  /\ board' = placed
                     /\ UNCHANGED waiting_for_computer
                     /\ IF verdict # "none"
                        THEN /\ HandleGameOver(verdict)
                             /\ UNCHANGED current_player
                        ELSE /\ current_player' =
                                   IF current_player = "X" THEN "O" ELSE "X"
                             /\ UNCHANGED <<is_game_over, scoreboard>>

\* _computer_turn, run by a root.after callback.  get_computer_move raises
\* on a board without an empty cell, which ends the callback there.
computer_turn ==
    LET diff == IF game_mode = "EASY" THEN "EASY" ELSE "HARD"
    IN  IF is_game_over
        THEN /\ waiting_for_computer' = FALSE
             /\ UNCHANGED <<board, current_player, is_game_over, scoreboard>>
        ELSE IF get_available_moves(board) = <<>>
        THEN UNCHANGED <<board, current_player, is_game_over,
                         waiting_for_computer, scoreboard>>
        ELSE \E draw \in DrawsOf(diff), choice \in ChoicesOf(board, diff) :
               \E r \in {get_computer_move(board, "O", "X", diff, draw, choice)} :
                 LET placed == make_move(r.board, r.move, "O")
                     verdict == check_game_over(placed)
                 IN  /\ board' = placed
                     /\ waiting_for_computer' = FALSE
                     /\ IF verdict # "none"
                        THEN /\ HandleGameOver(verdict)
                             /\ UNCHANGED current_player
                        ELSE /\ current_player' =
                                   IF current_player = "X" THEN "O" ELSE "X"
                             /\ UNCHANGED <<is_game_over, scoreboard>>

\* a pending root.after callback fires
TimerFires ==
    /\ pc = "mainloop"
    /\ timers > 0
    /\ timers' = timers - 1
    /\ computer_turn
    /\ UNCHANGED <<game_mode, screen>>
    /\ GuiFrame

GuiNext ==
    \/ SelectMode
    \/ NewGame
    \/ ChangeMode
    \/ ResetScores
    \/ CellClick
    \/ TimerFires

SpecGui == GuiInit /\ [][GuiNext]_vars

\* the two front ends of the game: a run is a console game of
\* tic_tac_toe.py or a session of the window of tic_tac_toe_gui.py
FrontEndInit == ConsoleInit \/ GuiInit

FrontEndNext == ConsoleNext \/ GuiNext

SpecFrontEnds == FrontEndInit /\ [][FrontEndNext]_vars

----------------------------------------------------------------------------
\* C11: get_position and position_to_num are mutually inverse: for every
\* position n of 1..9 get_position(n) is a (row, col) pair inside 0..2 x 0..2
\* that position_to_num sends back to n, and for every row and col of 0..2
\* position_to_num(row, col) is a position that get_position sends back to
\* (row, col).
C11_PositionConversionsInverse ==
    /\ op = "get_position" =>
          /\ ret[1] \in 0..2
          /\ ret[2] \in 0..2
          /\ position_to_num(ret[1], ret[2]) = arg
    /\ op = "position_to_num" =>
          /\ ret \in Positions
          /\ get_position(ret) = arg

C11_Witness_LastCellConverted ==
    /\ op = "get_position"
    /\ arg = 9
    /\ ret = <<2, 2>>

\* C12: make_move(board, n, mark) for n in 1..9 sets cell n to mark and
\* leaves the other eight cells as they were.
C12_MakeMoveWritesOneCell ==
    (op = "make_move" /\ pc = "returned") =>
        /\ Cell(board, arg) = computer
        /\ \A n \in Positions \ {arg} : Cell(board, n) = Cell(board0, n)

C12_Witness_OccupiedCellOverwritten ==
    /\ op = "make_move"
    /\ pc = "returned"
    /\ arg = 6
    /\ Cell(board0, 6) = human
    /\ Cell(board, 6) = computer
    /\ Cell(board0, 8) = computer

\* the board copy_board returned, read from the heap ret keeps
CopiedBoard == Deref(ret.heap, ret.ref)

\* C13: copy_board returns a board with the same nine cell values that
\* shares no state with its argument: a later write to the copy leaves the
\* original as it was, and a later write to the original leaves the copy as
\* it was.
C13_CopyIsIndependent ==
    /\ op = "copy_board" =>
          /\ CopiedBoard = board0
          /\ board = board0
    /\ op = "copy_board_changed" =>
          IF arg[1] = "copy"
          THEN /\ board = board0
               /\ Cell(CopiedBoard, arg[2]) = computer
               /\ \A n \in Positions \ {arg[2]} :
                      Cell(CopiedBoard, n) = Cell(board0, n)
          ELSE /\ CopiedBoard = board0
               /\ Cell(board, arg[2]) = computer
               /\ \A n \in Positions \ {arg[2]} :
                      Cell(board, n) = Cell(board0, n)

C13_Witness_OriginalChangedCopyKept ==
    /\ op = "copy_board_changed"
    /\ arg = <<"original", 5>>
    /\ Cell(board0, 5) = EMPTY
    /\ Cell(board, 5) = computer
    /\ CopiedBoard = board0

\* 1 when the recorded result is res, else 0
Counted(res) == IF arg = res THEN 1 ELSE 0

SameNames ==
    /\ scoreboard.player1_name = scoreboard0.player1_name
    /\ scoreboard.player2_name = scoreboard0.player2_name

\* C14: each call of record_result increases games_played by exactly 1 and
\* exactly the counter matching the result (player1_wins for PLAYER1_WIN,
\* player2_wins for PLAYER2_WIN, draws for DRAW) by exactly 1; the two other
\* counters and both names are unchanged.
C14_RecordResultCountsOnce ==
    op = "record_result" =>
        /\ scoreboard.games_played = scoreboard0.games_played + 1
        /\ scoreboard.player1_wins =
              scoreboard0.player1_wins + Counted("PLAYER1_WIN")
        /\ scoreboard.player2_wins =
              scoreboard0.player2_wins + Counted("PLAYER2_WIN")
        /\ scoreboard.draws = scoreboard0.draws + Counted("DRAW")
        /\ arg \in GameResults
        /\ SameNames

C14_Witness_Player2WinRecorded ==
    /\ op = "record_result"
    /\ arg = "PLAYER2_WIN"
    /\ scoreboard0.games_played = 2
    /\ scoreboard0.player2_wins = 1
    /\ scoreboard.player2_wins = 2
    /\ scoreboard.player1_name = "You"

\* C15: reset, after any sequence of record_result calls, sets the four
\* counters to 0 and leaves both names unchanged.
C15_ResetZeroesCounters ==
    op = "reset" =>
        /\ scoreboard.player1_wins = 0
        /\ scoreboard.player2_wins = 0
        /\ scoreboard.draws = 0
        /\ scoreboard.games_played = 0
        /\ SameNames

C15_Witness_ResetAfterThreeGames ==
    /\ op = "reset"
    /\ scoreboard0.games_played = 3
    /\ scoreboard0.player1_wins = 1
    /\ scoreboard0.player2_wins = 1
    /\ scoreboard0.draws = 1
    /\ scoreboard.games_played = 0
    /\ scoreboard.player1_name = "Alice"

\* C16: after any sequence of record_result and reset calls on a freshly
\* created Scoreboard, games_played = player1_wins + player2_wins + draws
\* and the four counters are non-negative.
C16_GamesPlayedIsSum ==
    /\ scoreboard.games_played =
          scoreboard.player1_wins + scoreboard.player2_wins + scoreboard.draws
    /\ scoreboard.player1_wins >= 0
    /\ scoreboard.player2_wins >= 0
    /\ scoreboard.draws >= 0
    /\ scoreboard.games_played >= 0

\* four games recorded, every counter used
C16_Witness_FourGamesRecorded ==
    /\ op = "record_result"
    /\ scoreboard.games_played = 4
    /\ scoreboard.player1_wins = 2
    /\ scoreboard.player2_wins = 1
    /\ scoreboard.draws = 1

----------------------------------------------------------------------------
EasyReturned ==
    pc = "returned" /\ op = "get_computer_move" /\ difficulty = "EASY"

\* C17: in computer_move_easy, when the random draw is below 0.3 (arg, in
\* tenths, below 3): if the computer has an immediately winning position the
\* function returns the one find_winning_move gives for the computer's mark,
\* the lowest; otherwise, if the opponent has an immediately winning
\* position, it returns the one find_winning_move gives for the opponent's
\* mark (a block); only when neither exists, or when the draw is 0.3 or
\* above, is the result an arbitrary available position.
C17_EasySmartBranch ==
    EasyReturned =>
        IF arg < 3 /\ CompletingFor(board0, computer) # {}
        THEN ret = Lowest(CompletingFor(board0, computer))
        ELSE IF arg < 3 /\ CompletingFor(board0, human) # {}
             THEN ret = Lowest(CompletingFor(board0, human))
             ELSE ret \in EmptyPositions(board0)

\* a smart draw on a board where both marks can complete a line: the
\* computer's win is returned, not the block
C17_Witness_EasyWinsBeforeBlocking ==
    /\ EasyReturned
    /\ arg = 2
    /\ CompletingFor(board0, computer) = {7}
    /\ CompletingFor(board0, human) = {3}
    /\ ret = 7

\* C20: on every non-empty board with at least one empty cell,
\* computer_move_hard returns the lowest-numbered available position among
\* those whose minimax score is the maximum over the available positions:
\* the first maximum in ascending order wins.
C20_HardReturnsFirstMaximum ==
    (HardReturned /\ EmptyPositions(board0) # Positions) =>
        /\ ret \in EmptyPositions(board0)
        /\ LET best == Score(board0, ret)
           IN  \A n \in EmptyPositions(board0) :
                   /\ Score(board0, n) <= best
                   /\ n < ret => Score(board0, n) < best

\* the maximum is reached at two positions, the lower one is returned, and
\* a still lower position with a smaller score was passed over
C20_Witness_FirstOfTwoMaxima ==
    /\ HardReturned
    /\ EmptyPositions(board0) # Positions
    /\ \E n, m \in EmptyPositions(board0) :
          /\ m < ret
          /\ ret < n
          /\ Score(board0, m) < Score(board0, ret)
          /\ Score(board0, n) = Score(board0, ret)

----------------------------------------------------------------------------
(* Console game properties, checked under SpecConsole                      *)

\* the step writes a mark into exactly one cell, which was empty
PlacesOneMark ==
    \E n \in EmptyPositions(board) :
        /\ Cell(board', n) \in Marks
        /\ \A m \in Positions \ {n} : Cell(board', m) = Cell(board, m)

\* the loop iteration at hand can be taken: the prompt has a valid move to
\* receive, or the computer has an available position to choose from
NextMoveExists ==
    IF difficulty \in {"EASY", "HARD"} /\ current_player = computer
    THEN get_available_moves(board) # <<>>
    ELSE \E move \in Inputs : is_valid_move(board, move)

\* C18: every console game (play_vs_computer in either difficulty and
\* play_two_player), each move prompt eventually receiving a valid move,
\* terminates after at most 9 marks and produces exactly one outcome out of
\* PLAYER1_WIN, PLAYER2_WIN and DRAW; no mark is placed after the outcome is
\* produced.  Termination is stated by its variant: a game that has not
\* returned always has a next loop iteration to take (a valid move exists
\* for the prompt, the computer has a move), and every iteration fills one
\* empty cell of the nine, so the game returns within 9 iterations.
C18_ConsoleGameTerminates ==
    /\ [](pc = "playing" => /\ result = "NONE"
                            /\ EmptyPositions(board) # {}
                            /\ NextMoveExists)
    /\ [](pc = "returned" => result \in GameResults)
    /\ [][pc = "playing" => PlacesOneMark]_vars
    /\ [][result # "NONE" => UNCHANGED <<board, result>>]_vars

\* a two-player game that took all nine marks and ended in a draw
C18_Witness_NineMarksDraw ==
    /\ pc = "returned"
    /\ difficulty = "TWO_PLAYER"
    /\ result = "DRAW"
    /\ EmptyPositions(board) = {}

----------------------------------------------------------------------------
(* Console session property, checked under SpecSession                     *)

\* C19: in the console session loop, after the user picks post-game choice 1
\* (play again, same mode) and the replayed game has finished and been
\* recorded, the next thing presented is the post-game menu again; the
\* game-mode selection is not invoked again until the user picks choice 2:
\* it is the next prompt only at the start of the session or after choice 2.
C19_ReplayReturnsToMenu ==
    /\ (op = "menu" /\ menu_choice = "1") => pc = "menu"
    /\ pc = "select_game_mode" => menu_choice \in {"", "2"}

----------------------------------------------------------------------------
\* C21: for every board, both values of is_maximizing and both mark
\* assignments, minimax returns exactly one of -10, 0 and +10, never an
\* infinity, however many moves away the win or loss is; on a board where
\* the opponent has a completed line it returns -10 even if the computer
\* also has one.
C21_MinimaxScoreRange ==
    (pc = "returned" /\ op = "minimax") =>
        /\ ret \in {-10, 0, 10}
        /\ HasLine(board0, human) => ret = -10

\* both marks have a completed line and the score is the loss
C21_Witness_BothLinesScoredAsLoss ==
    /\ pc = "returned"
    /\ op = "minimax"
    /\ HasLine(board0, human)
    /\ HasLine(board0, computer)
    /\ ret = -10

\* C23: the outcome a console game returns matches its final board:
\* PLAYER1_WIN only when X has a completed line, PLAYER2_WIN only when O has
\* one, DRAW only when the board is full and neither mark has a completed
\* line; a ninth move that completes a line yields a win, not a draw.
C23_OutcomeMatchesBoard ==
    pc = "returned" =>
        /\ result = "PLAYER1_WIN" => HasLine(board, "X")
        /\ result = "PLAYER2_WIN" => HasLine(board, "O")
        /\ result = "DRAW" => (EmptyPositions(board) = {} /\ NoLine(board))
        /\ (EmptyPositions(board) = {} /\ ~NoLine(board)) => result # "DRAW"

\* the ninth mark completed a line for X and the game returned the win
C23_Witness_NinthMoveWins ==
    /\ pc = "returned"
    /\ EmptyPositions(board) = {}
    /\ EmptyPositions(board0) # {}
    /\ HasLine(board, "X")
    /\ result = "PLAYER1_WIN"

----------------------------------------------------------------------------
(* GUI properties, checked under SpecGui                                   *)

CountOf(b, mark) == Cardinality({n \in Positions : Cell(b, n) = mark})

\* the step is a timer callback that wrote a mark on the board
TimerPlacesMark == timers' < timers /\ board' # board

\* C27: in the GUI in Easy or Hard mode, in every state between event
\* handlers, the marks on the board strictly alternate starting with X: the
\* number of X cells minus the number of O cells is 0 or 1, and the timer
\* callback places an O only when current_player is O.
C27_MarksAlternate ==
    /\ []((pc = "mainloop" /\ game_mode \in {"EASY", "HARD"}) =>
            CountOf(board, "X") - CountOf(board, "O") \in {0, 1})
    /\ [][(game_mode \in {"EASY", "HARD"} /\ TimerPlacesMark) =>
            current_player = "O"]_vars

\* C28: in the GUI, while game_mode is TWO_PLAYER no mark is ever placed by
\* the computer: the timer callback never writes a mark on the board, also
\* when Two Player was selected through Change Mode while a computer-move
\* timer of a previous Easy or Hard game was still pending.
C28_NoComputerMarkInTwoPlayer ==
    [][game_mode = "TWO_PLAYER" => ~TimerPlacesMark]_vars

\* C29: in the GUI, in every state between event handlers, if either mark
\* has a completed line on the board or the board is full, then
\* is_game_over is true.
C29_FinishedPositionDetected ==
    (pc = "mainloop" /\ (~NoLine(board) \/ EmptyPositions(board) = {})) =>
        is_game_over

\* C22: at every call of make_move made by the console game loops and by
\* the GUI handlers (_on_cell_click, _computer_turn), under every
\* interleaving of clicks, timer callbacks, new-game and mode changes, the
\* position is in 1..9 and the cell is empty, so no mark is overwritten,
\* and the computer is never asked for a move on a full board.  In the
\* console loops the call is recorded (op, ret, board0); in the GUI a
\* handler that reaches make_move is seen by its effect: a callback that
\* passes the is_game_over test writes exactly one mark on an empty cell,
\* and the board changes only that way or by the reset of _new_game.
C22_MovesOnlyOnEmptyCells ==
    /\ []((pc \in {"playing", "returned"} /\
            op \in {"make_move", "get_computer_move"}) =>
               (ret \in Positions /\ Cell(board0, ret) = EMPTY))
    /\ []((pc = "playing" /\ difficulty \in {"EASY", "HARD"} /\
            current_player = computer) => EmptyPositions(board) # {})
    /\ []((pc = "mainloop" /\ ~is_game_over) => EmptyPositions(board) # {})
    /\ [][(pc \in {"playing", "mainloop"}) =>
             (board' = board \/ board' = create_board \/ PlacesOneMark)]_vars
    /\ [][(pc = "mainloop" /\ timers' < timers /\ ~is_game_over) =>
             PlacesOneMark]_vars

\* a stale callback and then a click have each written an O on an empty
\* cell of a fresh board
C22_Witness_StaleTimerThenClick ==
    /\ pc = "mainloop"
    /\ game_mode \in {"EASY", "HARD"}
    /\ CountOf(board, "O") = 2
    /\ CountOf(board, "X") = 0

\* the step has the effect of _new_game on the game state
NewGameEffect ==
    /\ board' = create_board
    /\ current_player' = "X"
    /\ ~is_game_over'
    /\ ~waiting_for_computer'

\* the scoreboard is left alone or cleared by Reset Scores
ScoresKeptOrReset == scoreboard' = scoreboard \/ scoreboard' = reset(scoreboard)

\* C24: a GUI cell click that arrives while the game is over, while
\* waiting_for_computer is true, or on an occupied cell is ignored: board,
\* current_player, is_game_over, waiting_for_computer and the scoreboard
\* are unchanged and no computer move is scheduled.  An ignored click is a
\* step that changes nothing, so the property is stated for every step on
\* the game screen that is neither a timer callback nor New Game: while
\* the game is over or the computer is awaited such a step leaves the game
\* state alone, no such step rewrites an occupied cell, and one that
\* writes no mark changes nothing else and schedules nothing.
C24_IgnoredClickChangesNothing ==
    [][(pc = "mainloop" /\ screen = "game" /\ screen' = "game" /\
        timers' >= timers /\ ~NewGameEffect) =>
          /\ (is_game_over \/ waiting_for_computer) =>
                /\ UNCHANGED <<board, current_player, is_game_over,
                               waiting_for_computer, timers>>
                /\ ScoresKeptOrReset
          /\ \A n \in Positions :
                Cell(board, n) # EMPTY => Cell(board', n) = Cell(board, n)
          /\ board' = board =>
                /\ UNCHANGED <<current_player, is_game_over,
                               waiting_for_computer, timers>>
                /\ ScoresKeptOrReset]_vars

\* the game is over on the game screen with empty cells left to click
C24_Witness_GameOverWithEmptyCells ==
    /\ pc = "mainloop"
    /\ screen = "game"
    /\ is_game_over
    /\ EmptyPositions(board) # {}

\* the step calls Scoreboard.record_result once
RecordsResult == scoreboard'.games_played = scoreboard.games_played + 1

\* C25: in the GUI, between two consecutive New Game resets record_result
\* is called at most once, at the moment is_game_over becomes true.  Every
\* step that raises games_played raises it by one and takes is_game_over
\* from false to true, every step that sets is_game_over records a
\* result, and is_game_over returns to false only by the reset of
\* _new_game; later clicks and callbacks of the finished game record
\* nothing.
C25_OneResultPerGame ==
    /\ [][(pc = "mainloop" /\
           scoreboard'.games_played > scoreboard.games_played) =>
             (RecordsResult /\ ~is_game_over /\ is_game_over')]_vars
    /\ [][(pc = "mainloop" /\ ~is_game_over /\ is_game_over') =>
             RecordsResult]_vars
    /\ [][(pc = "mainloop" /\ is_game_over /\ ~is_game_over') =>
             NewGameEffect]_vars
    /\ [][(pc = "mainloop" /\ is_game_over /\ is_game_over') =>
             ScoresKeptOrReset]_vars

\* the one result of a finished game is on the scoreboard
C25_Witness_ResultRecorded ==
    /\ pc = "mainloop"
    /\ is_game_over
    /\ scoreboard.games_played = 1

\* C26: in the GUI in Hard mode, under every interleaving of clicks, timer
\* callbacks, New Game and mode changes (stale timers included), no step
\* taken while game_mode is HARD records PLAYER1_WIN: the human never gets
\* a win on the scoreboard.
C26_HardModeNeverRecordsHumanWin ==
    [][(pc = "mainloop" /\ game_mode = "HARD") =>
          scoreboard'.player1_wins <= scoreboard.player1_wins]_vars

\* a Hard game has ended with the computer's win on the scoreboard
C26_Witness_HardGameWonByComputer ==
    /\ pc = "mainloop"
    /\ game_mode = "HARD"
    /\ is_game_over
    /\ scoreboard.player2_wins = 1

\* C30: in the GUI, whenever waiting_for_computer is true, and assuming
\* pending timers fire, it eventually becomes false: the game cannot stay
\* locked with the board disabled.  Stated through what the scheduler
\* needs: while waiting_for_computer is true a callback is pending, and
\* every callback that runs leaves waiting_for_computer false.
C30_WaitingEndsWithTheCallback ==
    /\ []((pc = "mainloop" /\ waiting_for_computer) => timers >= 1)
    /\ [][(pc = "mainloop" /\ timers' < timers) =>
             ~waiting_for_computer']_vars

\* the board is disabled in a Hard game and the callback is pending
C30_Witness_WaitingForHardMove ==
    /\ pc = "mainloop"
    /\ game_mode = "HARD"
    /\ waiting_for_computer
    /\ timers = 1
    /\ CountOf(board, "X") = 2

====
